---- MODULE Spec2Model ----
(***************************************************************************)
(* gke-disk-cleanup: the mark pipeline (doMarkCmd / doMarkOne /            *)
(* handleMarkAction / handleSetLabel) and the cleanup pipeline             *)
(* (doCleanupCmd / doCleanupOne) of cmd/gke-disk-cleanup/main.go, run      *)
(* against a model of the Compute Disk Service (List / SetLabels /         *)
(* CreateSnapshot / Delete) they call through the disksClient interface.   *)
(*                                                                         *)
(* Time is counted in whole days.  A timestamp string is "" (the disk was  *)
(* never attached), an RFC3339 string as time.Format writes it, or a       *)
(* string time.Parse rejects.                                              *)
(*                                                                         *)
(* Two earlier variants of the program are modelled on the same state:     *)
(* the mark command of cmd/pvc-cleanup (PvcSpec) and the cleanup command   *)
(* of cmd/cleanup (StubSpec).                                              *)
(***************************************************************************)
EXTENDS Integers, Sequences, FiniteSets, TLC

VARIABLES
    disks,      \* the service: disk id -> the disk resource
    snapshots,  \* the service: names of the snapshots that exist
    now,        \* the wall clock, in days
    external,   \* number of label edits made by actors other than the pipelines
    nruns,      \* number of commands started so far
    cmd,        \* the current run: the command, its flags, the clock and
                \* the count of external edits at its start, and whether the iterator
                \* and every service call succeeded so far (clean)
    prev,       \* the run that returned before the current one started, remembered
                \* when it was a clean mark run with dryRun=false
    pc,         \* where the current run stands
    ret,        \* what the last do*Cmd returned ("running" until it returns)
    diskIter,   \* the iterator of the current run: the disks it has not returned yet
    faults,     \* number of times the iterator of the current run has returned its
                \* fault, counted up to MaxFaults and then over again from 1
    disk,       \* doMarkOne / doCleanupOne: the disk Next returned
    decided,    \* doMarkOne: the action and error handleMarkAction returned for
                \* disk, and the clock it read
    err,        \* what the last doMarkOne / doCleanupOne returned
    calls,      \* the service calls the current run has issued so far, in order,
                \* each with the fetched disk it was made for
    ctx         \* the context main hands to the command: "live" or "cancelled"

vars == <<disks, snapshots, now, external, nruns, cmd, prev, pc, ret, diskIter,
          faults, disk, decided, err, calls, ctx>>

----------------------------------------------------------------------------
(* Bounds of the model *)

NumDisks == 2
MaxRuns == 2
MaxNow == 1
MaxCutoffDays == 1
MaxExternal == 1
MaxFaults == 2

DiskIds == 1..NumDisks

----------------------------------------------------------------------------
(* Vocabulary of main.go *)

labelMarkedForDeletion == "marked-for-deletion"

errLastAttachedWithinCutoff == "disk last attached within cutoff"
errAlreadyLabelled == "disk already labelled"
errUnlabelled == "disk explicitly unmarked for deletion"
errDryRun == "dry run enabled"

\* iterator.Done, and the errors doMarkOne / doCleanupOne build with xerrors.Errorf
iteratorDone == "no more items in iterator"
errIterating == "iterating disks"
errParse == "parse last attached timestamp"
errUpdatingLabels == "error updating disk labels"
errMissingLabel == "missing required label"
errWrongLabelValue == "expected label value true but got"
errCreateSnapshot == "failed to create snapshot before deletion"
errWaitSnapshot == "failed to wait for snapshot to be ready"
errDelete == "failed to delete disk"
nil == "nil"

actionSkip == ""
actionMark == "MARK"
actionUnmark == "UNMARK"

----------------------------------------------------------------------------
(* Label maps.  A Go map[string]string is nil or a finite function. *)

OtherKey == "team"
LabelKeys == {labelMarkedForDeletion, OtherKey}
MarkValues == {"true", "false", ""}

EmptyMap == [k \in {} |-> ""]
NilLabels == [isNil |-> TRUE, m |-> EmptyMap]
MakeLabels(m) == [isNil |-> FALSE, m |-> m]

\* m[k] = v on a map
MapPut(m, k, v) == [x \in (DOMAIN m) \cup {k} |-> IF x = k THEN v ELSE m[x]]

\* v, found := m[k]; reading a nil map finds nothing
MapGet(labels, k) ==
    IF (~labels.isNil) /\ k \in DOMAIN labels.m
    THEN [found |-> TRUE, val |-> labels.m[k]]
    ELSE [found |-> FALSE, val |-> ""]

\* the label maps a disk of the inventory may carry
LabelMaps ==
    {NilLabels} \cup
    { MakeLabels(m) : m \in
        UNION { [D -> MarkValues \cup {"a"}] : D \in SUBSET LabelKeys } }

\* a disk of the inventory has no label map, an empty one, or one that holds
\* another label and possibly a value of marked-for-deletion
InventoryLabels ==
    { l \in LabelMaps :
        \/ l.isNil
        \/ l.m = EmptyMap
        \/ /\ OtherKey \in DOMAIN l.m
           /\ l.m[OtherKey] = "a"
           /\ (labelMarkedForDeletion \in DOMAIN l.m
                  => l.m[labelMarkedForDeletion] \in MarkValues) }

----------------------------------------------------------------------------
(* Timestamps *)

Days == 0..MaxNow

\* time.Time.Format(time.RFC3339) of day t
FormatRFC3339(t) == "day" \o ToString(t)

\* time.Parse taking every string for a time, the zero time when it is none
TimeParseLenient(s) ==
    IF \E t \in Days : FormatRFC3339(t) = s
    THEN [ok |-> TRUE, t |-> CHOOSE t \in Days : FormatRFC3339(t) = s]
    ELSE [ok |-> TRUE, t |-> 0]

\* time.Parse(time.RFC3339, s)
TimeParse(s) ==
    IF \E t \in Days : FormatRFC3339(t) = s
    THEN [ok |-> TRUE, t |-> CHOOSE t \in Days : FormatRFC3339(t) = s]
    ELSE [ok |-> FALSE, t |-> 0]

Timestamps == {"", "invalid"} \cup { FormatRFC3339(t) : t \in Days }

----------------------------------------------------------------------------
(* time.Duration: a signed 64-bit count of nanoseconds, held here as eight
   limbs of eight bits, the lowest first, in two's complement.  The runs below
   count the cutoff and the clock in whole days; these operators compute the
   cutoff the way main does, in nanoseconds and in 64 bits. *)

LimbBase == 2^8
NumLimbs == 64 \div 8

\* the int64 holding n, 0 <= n < 2^31
ToInt64(n) ==
    [i \in 1..NumLimbs |->
        IF i <= 4 THEN (n \div LimbBase^(i - 1)) % LimbBase ELSE 0]

\* a[1]*b[k] + a[2]*b[k-1] + ... + a[j]*b[k+1-j]
RECURSIVE Column(_, _, _, _)
Column(a, b, k, j) ==
    IF j = 0 THEN 0 ELSE a[j] * b[k + 1 - j] + Column(a, b, k, j - 1)

RECURSIVE MulFrom(_, _, _, _)
MulFrom(a, b, k, carry) ==
    IF k > NumLimbs
    THEN <<>>
    ELSE LET s == carry + Column(a, b, k, k)
         IN  <<s % LimbBase>> \o MulFrom(a, b, k + 1, s \div LimbBase)

\* Go's a * b on int64: the low 64 bits of the product
Mul64(a, b) == MulFrom(a, b, 1, 0)

\* a < 0
Negative64(a) == a[NumLimbs] >= LimbBase \div 2

RECURSIVE UnsignedLess(_, _, _)
UnsignedLess(a, b, i) ==
    IF i = 0 THEN FALSE
    ELSE IF a[i] # b[i] THEN a[i] < b[i]
    ELSE UnsignedLess(a, b, i - 1)

\* Go's a < b on int64
Less64(a, b) ==
    IF Negative64(a) # Negative64(b)
    THEN Negative64(a)
    ELSE UnsignedLess(a, b, NumLimbs)

\* time.Hour: 60 * 60 * 10^9 nanoseconds
timeHour == Mul64(ToInt64(60 * 60), ToInt64(10^9))

\* cutoff := 24 * time.Hour * time.Duration(lastAttachedCutoffDays)
cutoffDuration(lastAttachedCutoffDays) ==
    Mul64(Mul64(ToInt64(24), timeHour), ToInt64(lastAttachedCutoffDays))

\* time.Since(lastAttachTime) of a disk attached the given number of days ago
timeSince64(days) == Mul64(Mul64(ToInt64(24), timeHour), ToInt64(days))

\* lastAttachedWithinCutoff := time.Since(lastAttachTime) < cutoff
lastAttachedWithinCutoff64(days, lastAttachedCutoffDays) ==
    Less64(timeSince64(days), cutoffDuration(lastAttachedCutoffDays))

\* values of --cutoff: none, a day, the default, the last number of days that
\* fits 64 bits of nanoseconds, the first that does not, and a number of days
\* whose nanoseconds pass 2^64
FlagCutoffs == {0, 1, 30, 106751, 106752, 213504}

----------------------------------------------------------------------------
(* The Decision Engine *)

\* time.Since(t), read from the wall clock
timeSince(t) == now - t

\* handleMarkAction marking again a disk whose label holds another value than
\* "true" once it is past the cutoff
handleMarkActionRemark(lastAttachTimestamp, labels, cutoff) ==
    IF lastAttachTimestamp = ""
    THEN [action |-> actionMark, err |-> nil]
    ELSE LET parsed == TimeParse(lastAttachTimestamp)
             label == MapGet(labels, labelMarkedForDeletion)
             lastAttachedWithinCutoff == timeSince(parsed.t) < cutoff
         IN  IF ~parsed.ok
             THEN [action |-> actionSkip, err |-> errParse]
             ELSE IF lastAttachedWithinCutoff
             THEN IF label.found /\ label.val = "true"
                  THEN [action |-> actionUnmark, err |-> nil]
                  ELSE [action |-> actionSkip, err |-> nil]
             ELSE IF label.found /\ label.val = "true"
             THEN [action |-> actionSkip, err |-> errAlreadyLabelled]
             ELSE [action |-> actionMark, err |-> nil]

\* handleMarkAction skipping every disk that carries another label
handleMarkActionOtherLabel(lastAttachTimestamp, labels, cutoff) ==
    IF MapGet(labels, OtherKey).found
    THEN [action |-> actionSkip, err |-> nil]
    ELSE IF lastAttachTimestamp = ""
    THEN [action |-> actionMark, err |-> nil]
    ELSE LET parsed == TimeParse(lastAttachTimestamp)
             label == MapGet(labels, labelMarkedForDeletion)
             lastAttachedWithinCutoff == timeSince(parsed.t) < cutoff
         IN  IF ~parsed.ok
             THEN [action |-> actionSkip, err |-> errParse]
             ELSE IF lastAttachedWithinCutoff
             THEN IF label.found /\ label.val = "true"
                  THEN [action |-> actionUnmark, err |-> nil]
                  ELSE [action |-> actionSkip, err |-> nil]
             ELSE IF label.found
             THEN IF label.val = "true"
                  THEN [action |-> actionSkip, err |-> errAlreadyLabelled]
                  ELSE [action |-> actionSkip, err |-> errUnlabelled]
             ELSE [action |-> actionMark, err |-> nil]

\* handleMarkAction looking at the label before the empty timestamp
handleMarkActionLabelFirst(lastAttachTimestamp, labels, cutoff) ==
    LET parsed == TimeParse(lastAttachTimestamp)
        label == MapGet(labels, labelMarkedForDeletion)
        lastAttachedWithinCutoff ==
            lastAttachTimestamp # "" /\ timeSince(parsed.t) < cutoff
    IN  IF lastAttachTimestamp # "" /\ ~parsed.ok
        THEN [action |-> actionSkip, err |-> errParse]
        ELSE IF lastAttachedWithinCutoff
        THEN IF label.found /\ label.val = "true"
             THEN [action |-> actionUnmark, err |-> nil]
             ELSE [action |-> actionSkip, err |-> nil]
        ELSE IF label.found
        THEN IF label.val = "true"
             THEN [action |-> actionSkip, err |-> errAlreadyLabelled]
             ELSE [action |-> actionSkip, err |-> errUnlabelled]
        ELSE [action |-> actionMark, err |-> nil]

\* handleMarkAction never unmarking
handleMarkActionNoUnmark(lastAttachTimestamp, labels, cutoff) ==
    IF lastAttachTimestamp = ""
    THEN [action |-> actionMark, err |-> nil]
    ELSE LET parsed == TimeParse(lastAttachTimestamp)
             label == MapGet(labels, labelMarkedForDeletion)
             lastAttachedWithinCutoff == timeSince(parsed.t) < cutoff
         IN  IF ~parsed.ok
             THEN [action |-> actionSkip, err |-> errParse]
             ELSE IF lastAttachedWithinCutoff
             THEN [action |-> actionSkip, err |-> nil]
             ELSE IF label.found
             THEN IF label.val = "true"
                  THEN [action |-> actionSkip, err |-> errAlreadyLabelled]
                  ELSE [action |-> actionSkip, err |-> errUnlabelled]
             ELSE [action |-> actionMark, err |-> nil]

\* handleMarkAction returning errLastAttachedWithinCutoff with its skip
handleMarkActionWithinCutoffErr(lastAttachTimestamp, labels, cutoff) ==
    IF lastAttachTimestamp = ""
    THEN [action |-> actionMark, err |-> nil]
    ELSE LET parsed == TimeParse(lastAttachTimestamp)
             label == MapGet(labels, labelMarkedForDeletion)
             lastAttachedWithinCutoff == timeSince(parsed.t) < cutoff
         IN  IF ~parsed.ok
             THEN [action |-> actionSkip, err |-> errParse]
             ELSE IF lastAttachedWithinCutoff
             THEN IF label.found /\ label.val = "true"
                  THEN [action |-> actionUnmark, err |-> nil]
                  ELSE [action |-> actionSkip, err |-> errLastAttachedWithinCutoff]
             ELSE IF label.found
             THEN IF label.val = "true"
                  THEN [action |-> actionSkip, err |-> errAlreadyLabelled]
                  ELSE [action |-> actionSkip, err |-> errUnlabelled]
             ELSE [action |-> actionMark, err |-> nil]

\* handleMarkAction counting a disk attached exactly cutoff ago as recent
handleMarkActionInclusive(lastAttachTimestamp, labels, cutoff) ==
    IF lastAttachTimestamp = ""
    THEN [action |-> actionMark, err |-> nil]
    ELSE LET parsed == TimeParse(lastAttachTimestamp)
             label == MapGet(labels, labelMarkedForDeletion)
             lastAttachedWithinCutoff == timeSince(parsed.t) <= cutoff
         IN  IF ~parsed.ok
             THEN [action |-> actionSkip, err |-> errParse]
             ELSE IF lastAttachedWithinCutoff
             THEN IF label.found /\ label.val = "true"
                  THEN [action |-> actionUnmark, err |-> nil]
                  ELSE [action |-> actionSkip, err |-> nil]
             ELSE IF label.found
             THEN IF label.val = "true"
                  THEN [action |-> actionSkip, err |-> errAlreadyLabelled]
                  ELSE [action |-> actionSkip, err |-> errUnlabelled]
             ELSE [action |-> actionMark, err |-> nil]

handleMarkAction(lastAttachTimestamp, labels, cutoff) ==
    IF lastAttachTimestamp = ""
    THEN [action |-> actionMark, err |-> nil]
    ELSE LET parsed == TimeParse(lastAttachTimestamp)
             label == MapGet(labels, labelMarkedForDeletion)
             lastAttachedWithinCutoff == timeSince(parsed.t) < cutoff
         IN  IF ~parsed.ok
             THEN [action |-> actionSkip, err |-> errParse]
             ELSE IF lastAttachedWithinCutoff
             THEN IF label.found /\ label.val = "true"
                  THEN [action |-> actionUnmark, err |-> nil]
                  ELSE [action |-> actionSkip, err |-> nil]
             ELSE IF label.found
             THEN IF label.val = "true"
                  THEN [action |-> actionSkip, err |-> errAlreadyLabelled]
                  ELSE [action |-> actionSkip, err |-> errUnlabelled]
             ELSE [action |-> actionMark, err |-> nil]

----------------------------------------------------------------------------
(* The Compute Disk Service *)

NoDisk == [id |-> 0, lastAttachTimestamp |-> "", labels |-> NilLabels,
           labelFingerprint |-> 0]

Undecided == [action |-> actionSkip, err |-> nil, now |-> 0]

\* the Disk message the iterator hands out for disk d
DiskOf(d) == [id |-> d,
              lastAttachTimestamp |-> disks[d].lastAttachTimestamp,
              labels |-> disks[d].labels,
              labelFingerprint |-> disks[d].labelFingerprint]

\* disksClient.List: the disks of the project and zone, in id order
RECURSIVE ListFrom(_)
ListFrom(d) ==
    IF d > NumDisks THEN <<>>
    ELSE IF disks[d].exists THEN <<d>> \o ListFrom(d + 1)
    ELSE ListFrom(d + 1)

List == ListFrom(1)

\* the service accepts SetLabels only with the disk's current label fingerprint
SetLabelsAccepted(d, fingerprint) ==
    disks[d].exists /\ disks[d].labelFingerprint = fingerprint

\* a service call made for the fetched disk dsk: the operation, the label map
\* and fingerprint of a SetLabels request, and whether the service accepted it
Call(op, dsk, labels, fingerprint, ok) ==
    [op |-> op, disk |-> dsk.id, fetched |-> dsk, labels |-> labels,
     fingerprint |-> fingerprint, ok |-> ok]

----------------------------------------------------------------------------
(* The current run *)

NoRun ==
    [kind |-> "none", cutoff |-> 0, doSnapshot |-> FALSE, dryRun |-> FALSE,
     now0 |-> 0, external0 |-> 0, clean |-> FALSE]

MarkRun(cutoff, dryRun) ==
    [kind |-> "mark", cutoff |-> cutoff, doSnapshot |-> FALSE, dryRun |-> dryRun,
     now0 |-> now, external0 |-> external, clean |-> TRUE]

CleanupRun(doSnapshot, dryRun) ==
    [kind |-> "cleanup", cutoff |-> 0, doSnapshot |-> doSnapshot, dryRun |-> dryRun,
     now0 |-> now, external0 |-> external, clean |-> TRUE]

\* the run's record after a call or the iterator answered ok
Answered(ok) == [cmd EXCEPT !.clean = @ /\ ok]

\* what is remembered of a run when it returns
Remembered(run) ==
    IF run.kind = "mark" /\ ~run.dryRun /\ run.clean THEN run ELSE NoRun

TypeOK ==
    /\ now \in Days
    /\ external \in 0..MaxExternal
    /\ nruns \in 0..MaxRuns
    /\ faults \in 0..MaxFaults
    /\ pc \in {"idle", "mark_next", "mark_setlabels", "cleanup_next",
               "cleanup_snapshot", "cleanup_wait", "cleanup_delete",
               "pvc_mark_next", "pvc_mark_setlabels",
               "stub_cleanup_one", "stub_cleanup_switch"}
    /\ ret \in {"none", "running", nil}
    /\ decided.action \in {actionSkip, actionMark, actionUnmark}
    /\ snapshots \subseteq DiskIds
    /\ ctx \in {"live", "cancelled"}

Init ==
    /\ disks \in [DiskIds -> [exists : {TRUE},
                              lastAttachTimestamp : Timestamps,
                              labels : InventoryLabels,
                              labelFingerprint : {0}]]
    /\ snapshots = {}
    /\ now = 0
    /\ external = 0
    /\ nruns = 0
    /\ cmd = NoRun
    /\ prev = NoRun
    /\ pc = "idle"
    /\ ret = "none"
    /\ diskIter = <<>>
    /\ faults = 0
    /\ disk = NoDisk
    /\ decided = Undecided
    /\ err = nil
    /\ calls = <<>>
    /\ ctx = "live"

----------------------------------------------------------------------------
(* The Mark Pipeline *)

\* doMarkCmd up to its loop: the command is started and lists the disks
doMarkCmd(cutoff, dryRun) ==
    /\ pc = "idle"
    /\ nruns < MaxRuns
    /\ nruns' = nruns + 1
    /\ cmd' = MarkRun(cutoff, dryRun)
    /\ diskIter' = List
    /\ faults' = 0
    /\ pc' = "mark_next"
    /\ ret' = "running"
    /\ disk' = NoDisk /\ decided' = Undecided /\ err' = nil /\ calls' = <<>>
    /\ ctx' = "live"
    /\ UNCHANGED <<disks, snapshots, now, external, prev>>

\* doMarkOne, di.Next() returning iterator.Done: doMarkCmd returns nil and the
\* run's locals are gone
MarkDone ==
    /\ pc = "mark_next"
    /\ faults = 0
    /\ diskIter = <<>>
    /\ err' = iteratorDone
    /\ ret' = nil
    /\ pc' = "idle"
    /\ prev' = Remembered(cmd)
    /\ cmd' = NoRun /\ disk' = NoDisk /\ decided' = Undecided /\ calls' = <<>>
    /\ ctx' = "live"
    /\ UNCHANGED <<disks, snapshots, now, external, nruns, diskIter, faults>>

\* doMarkOne, di.Next() returning another error: doMarkCmd logs it and loops.
\* An iterator that has failed returns the same error to every later Next,
\* and the loop has no end.
MarkIterFault ==
    /\ pc = "mark_next"
    /\ faults' = IF faults < MaxFaults THEN faults + 1 ELSE 1
    /\ err' = errIterating
    /\ cmd' = Answered(FALSE)
    /\ UNCHANGED <<ctx, disks, snapshots, now, external, nruns, prev, pc, ret, diskIter,
                   disk, decided, calls>>

\* doMarkCmd, the switch on the error doMarkOne returned: the level it logs
\* the error at ("none" when it logs nothing)
markLogLevel(e) ==
    IF e = nil \/ e = iteratorDone THEN "none"
    ELSE IF e = errLastAttachedWithinCutoff \/ e = errDryRun THEN "debug"
    ELSE "error"

\* the switch on the action returning nil for actionMark without a call
markSwitchNoMark(a, dryRun) ==
    IF a = actionSkip \/ a = actionMark THEN [call |-> FALSE, err |-> nil]
    ELSE IF dryRun THEN [call |-> FALSE, err |-> errDryRun]
    ELSE [call |-> TRUE, err |-> nil]

\* the switch on the action without its dry-run checks
markSwitchWet(a, dryRun) ==
    IF a = actionSkip THEN [call |-> FALSE, err |-> nil]
    ELSE [call |-> TRUE, err |-> nil]

\* doMarkOne, the switch on the action: what it returns without calling the
\* service, or that it calls handleSetLabel
markSwitch(a, dryRun) ==
    IF a = actionSkip THEN [call |-> FALSE, err |-> nil]
    ELSE IF dryRun THEN [call |-> FALSE, err |-> errDryRun]
    ELSE [call |-> TRUE, err |-> nil]

\* di.Next() returning a disk, a disk found already labelled sent on to Delete
MarkNextDeletesLabelled ==
    /\ pc = "mark_next"
    /\ faults = 0
    /\ diskIter # <<>>
    /\ LET d == DiskOf(Head(diskIter))
           r == handleMarkAction(d.lastAttachTimestamp, d.labels, cmd.cutoff)
           sw == markSwitch(r.action, cmd.dryRun)
       IN  /\ disk' = d
           /\ diskIter' = Tail(diskIter)
           /\ decided' = [action |-> r.action, err |-> r.err, now |-> now]
           /\ IF r.err = errAlreadyLabelled /\ ~cmd.dryRun
              THEN err' = err /\ pc' = "cleanup_delete"
              ELSE IF r.err # nil
              THEN err' = r.err /\ pc' = "mark_next"
              ELSE IF sw.call
              THEN err' = err /\ pc' = "mark_setlabels"
              ELSE err' = sw.err /\ pc' = "mark_next"
    /\ UNCHANGED <<ctx, disks, snapshots, now, external, nruns, cmd, prev, ret,
                   faults, calls>>

\* di.Next() returning a disk, an error of the decision returned from doMarkCmd
\* as the end of the run
MarkNextAbort ==
    /\ pc = "mark_next"
    /\ faults = 0
    /\ diskIter # <<>>
    /\ LET d == DiskOf(Head(diskIter))
           r == handleMarkAction(d.lastAttachTimestamp, d.labels, cmd.cutoff)
           sw == markSwitch(r.action, cmd.dryRun)
       IN  /\ disk' = d
           /\ diskIter' = Tail(diskIter)
           /\ decided' = [action |-> r.action, err |-> r.err, now |-> now]
           /\ IF r.err # nil
              THEN err' = r.err /\ pc' = "idle" /\ ret' = nil
              ELSE IF sw.call
              THEN err' = err /\ pc' = "mark_setlabels" /\ ret' = ret
              ELSE err' = sw.err /\ pc' = "mark_next" /\ ret' = ret
    /\ UNCHANGED <<ctx, disks, snapshots, now, external, nruns, cmd, prev, faults,
                   calls>>

\* doMarkOne, di.Next() returning a disk: the decision and the switch on it
MarkNext ==
    /\ pc = "mark_next"
    /\ faults = 0
    /\ diskIter # <<>>
    /\ LET d == DiskOf(Head(diskIter))
           r == handleMarkAction(d.lastAttachTimestamp, d.labels, cmd.cutoff)
           sw == markSwitch(r.action, cmd.dryRun)
       IN  /\ disk' = d
           /\ diskIter' = Tail(diskIter)
           /\ decided' = [action |-> r.action, err |-> r.err, now |-> now]
           /\ IF r.err # nil
              THEN err' = r.err /\ pc' = "mark_next"
              ELSE IF sw.call
              THEN err' = err /\ pc' = "mark_setlabels"
              ELSE err' = sw.err /\ pc' = "mark_next"
    /\ UNCHANGED <<ctx, disks, snapshots, now, external, nruns, cmd, prev, ret, faults,
                   calls>>

\* doMarkOne passing "false" to handleSetLabel for every action
MarkValueOfAlwaysFalse(a) == "false"

\* the value doMarkOne passes to handleSetLabel for the action
MarkValueOf(a) == IF a = actionMark THEN "true" ELSE "false"

\* handleSetLabel sending the fingerprint the disk has at the time of the call
handleSetLabelCurrentFingerprint(dsk, k, v) ==
    [labels |-> MakeLabels(MapPut(dsk.labels.m, k, v)),
     labelFingerprint |-> disks[dsk.id].labelFingerprint]

\* handleSetLabel sending a map that holds the one label only
handleSetLabelFresh(dsk, k, v) ==
    [labels |-> MakeLabels(MapPut(EmptyMap, k, v)),
     labelFingerprint |-> dsk.labelFingerprint]

\* handleSetLabel: the label map and fingerprint of the SetLabels request
handleSetLabel(dsk, k, v) ==
    [labels |-> MakeLabels(MapPut(dsk.labels.m, k, v)),
     labelFingerprint |-> dsk.labelFingerprint]

\* dc.SetLabels answering, the request sent once more after a rejection
MarkSetLabelsRetry ==
    /\ pc = "mark_setlabels"
    /\ LET req == handleSetLabel(disk, labelMarkedForDeletion,
                                 MarkValueOf(decided.action))
       IN \E ok \in BOOLEAN :
            /\ ok => ctx = "live" /\ SetLabelsAccepted(disk.id, req.labelFingerprint)
            /\ calls' = Append(calls, Call("SetLabels", disk, req.labels,
                                           req.labelFingerprint, ok))
            /\ IF ok
               THEN /\ disks' = [disks EXCEPT
                          ![disk.id].labels = req.labels,
                          ![disk.id].labelFingerprint = @ + 1]
                    /\ err' = nil
                    /\ pc' = "mark_next"
               ELSE /\ disks' = disks
                    /\ err' = errUpdatingLabels
                    /\ pc' = IF \A i \in DOMAIN calls : calls[i].disk # disk.id
                             THEN "mark_setlabels" ELSE "mark_next"
            /\ cmd' = Answered(ok)
    /\ UNCHANGED <<ctx, snapshots, now, external, nruns, prev, ret, diskIter, faults,
                   disk, decided>>

\* dc.SetLabels answering after the loop went on to fetch the next disk
MarkSetLabelsAsync ==
    /\ pc = "mark_setlabels"
    /\ LET req == handleSetLabel(disk, labelMarkedForDeletion,
                                 MarkValueOf(decided.action))
       IN \E ok \in BOOLEAN :
            /\ ok => ctx = "live" /\ SetLabelsAccepted(disk.id, req.labelFingerprint)
            /\ calls' = Append(calls, Call("SetLabels", disk, req.labels,
                                           req.labelFingerprint, ok))
            /\ IF ok
               THEN /\ disks' = [disks EXCEPT
                          ![disk.id].labels = req.labels,
                          ![disk.id].labelFingerprint = @ + 1]
                    /\ err' = nil
               ELSE /\ disks' = disks
                    /\ err' = errUpdatingLabels
            /\ cmd' = Answered(ok)
    /\ IF diskIter # <<>>
       THEN disk' = DiskOf(Head(diskIter)) /\ diskIter' = Tail(diskIter)
       ELSE disk' = disk /\ diskIter' = diskIter
    /\ pc' = "mark_next"
    /\ UNCHANGED <<ctx, snapshots, now, external, nruns, prev, ret, faults,
                   decided>>

\* dc.SetLabels answering, a rejection returned from doMarkCmd as its error
MarkSetLabelsAbort ==
    /\ pc = "mark_setlabels"
    /\ LET req == handleSetLabel(disk, labelMarkedForDeletion,
                                 MarkValueOf(decided.action))
       IN \E ok \in BOOLEAN :
            /\ ok => ctx = "live" /\ SetLabelsAccepted(disk.id, req.labelFingerprint)
            /\ calls' = Append(calls, Call("SetLabels", disk, req.labels,
                                           req.labelFingerprint, ok))
            /\ IF ok
               THEN /\ disks' = [disks EXCEPT
                          ![disk.id].labels = req.labels,
                          ![disk.id].labelFingerprint = @ + 1]
                    /\ err' = nil /\ pc' = "mark_next" /\ ret' = ret
               ELSE /\ disks' = disks
                    /\ err' = errUpdatingLabels /\ pc' = "idle"
                    /\ ret' = errUpdatingLabels
            /\ cmd' = Answered(ok)
    /\ UNCHANGED <<ctx, snapshots, now, external, nruns, prev, diskIter, faults,
                   disk, decided>>

\* handleSetLabel, dc.SetLabels answering
MarkSetLabels ==
    /\ pc = "mark_setlabels"
    /\ LET req == handleSetLabel(disk, labelMarkedForDeletion,
                                 MarkValueOf(decided.action))
       IN \E ok \in BOOLEAN :
            /\ ok => ctx = "live" /\ SetLabelsAccepted(disk.id, req.labelFingerprint)
            /\ calls' = Append(calls, Call("SetLabels", disk, req.labels,
                                           req.labelFingerprint, ok))
            /\ IF ok
               THEN /\ disks' = [disks EXCEPT
                          ![disk.id].labels = req.labels,
                          ![disk.id].labelFingerprint = @ + 1]
                    /\ err' = nil
               ELSE /\ disks' = disks
                    /\ err' = errUpdatingLabels
            /\ cmd' = Answered(ok)
    /\ pc' = "mark_next"
    /\ UNCHANGED <<ctx, snapshots, now, external, nruns, prev, ret, diskIter, faults,
                   disk, decided>>

----------------------------------------------------------------------------
(* The Cleanup Pipeline *)

\* doCleanupCmd up to its loop: the command is started and lists the disks
doCleanupCmd(doSnapshot, dryRun) ==
    /\ pc = "idle"
    /\ nruns < MaxRuns
    /\ nruns' = nruns + 1
    /\ cmd' = CleanupRun(doSnapshot, dryRun)
    /\ diskIter' = List
    /\ faults' = 0
    /\ pc' = "cleanup_next"
    /\ ret' = "running"
    /\ disk' = NoDisk /\ decided' = Undecided /\ err' = nil /\ calls' = <<>>
    /\ ctx' = "live"
    /\ UNCHANGED <<disks, snapshots, now, external, prev>>

\* doCleanupOne, di.Next() returning iterator.Done: doCleanupCmd returns nil
\* and the run's locals are gone
CleanupDone ==
    /\ pc = "cleanup_next"
    /\ faults = 0
    /\ diskIter = <<>>
    /\ err' = iteratorDone
    /\ ret' = nil
    /\ pc' = "idle"
    /\ prev' = Remembered(cmd)
    /\ cmd' = NoRun /\ disk' = NoDisk /\ decided' = Undecided /\ calls' = <<>>
    /\ ctx' = "live"
    /\ UNCHANGED <<disks, snapshots, now, external, nruns, diskIter, faults>>

\* doCleanupOne, di.Next() returning another error: doCleanupCmd logs it and
\* loops.  An iterator that has failed returns the same error to every later
\* Next, and the loop has no end.
CleanupIterFault ==
    /\ pc = "cleanup_next"
    /\ faults' = IF faults < MaxFaults THEN faults + 1 ELSE 1
    /\ err' = errIterating
    /\ cmd' = Answered(FALSE)
    /\ UNCHANGED <<ctx, disks, snapshots, now, external, nruns, prev, pc, ret, diskIter,
                   disk, decided, calls>>

\* the label check passing a disk that has no label map
checkLabelsNilAllowed(diskLabels) ==
    IF diskLabels.isNil THEN nil
    ELSE LET label == MapGet(diskLabels, labelMarkedForDeletion)
         IN  IF ~label.found THEN errMissingLabel
             ELSE IF label.val # "true" THEN errWrongLabelValue
             ELSE nil

\* the label check accepting any value of the label
checkLabelsAnyValue(diskLabels) ==
    IF diskLabels.isNil THEN errMissingLabel
    ELSE LET label == MapGet(diskLabels, labelMarkedForDeletion)
         IN  IF ~label.found THEN errMissingLabel ELSE nil

\* doCleanupOne: the check of the fetched disk's labels
checkLabels(diskLabels) ==
    IF diskLabels.isNil THEN errMissingLabel
    ELSE LET label == MapGet(diskLabels, labelMarkedForDeletion)
         IN  IF ~label.found THEN errMissingLabel
             ELSE IF label.val # "true" THEN errWrongLabelValue
             ELSE nil

\* doCleanupOne snapshotting without looking at doSnapshot
cleanupSwitchAlwaysSnapshot(doSnapshot, dryRun) ==
    IF dryRun THEN [pc |-> "cleanup_next", err |-> errDryRun]
    ELSE [pc |-> "cleanup_snapshot", err |-> nil]

\* doCleanupOne deleting without looking at doSnapshot
cleanupSwitchNoSnapshot(doSnapshot, dryRun) ==
    IF dryRun THEN [pc |-> "cleanup_next", err |-> errDryRun]
    ELSE [pc |-> "cleanup_delete", err |-> nil]

\* doCleanupOne past the label check: what the flags make it do first
cleanupSwitch(doSnapshot, dryRun) ==
    IF dryRun THEN [pc |-> "cleanup_next", err |-> errDryRun]
    ELSE IF doSnapshot THEN [pc |-> "cleanup_snapshot", err |-> nil]
    ELSE [pc |-> "cleanup_delete", err |-> nil]

\* di.Next() returning a disk, a disk attached today skipped like in the mark
\* run
CleanupNextChecksAttach ==
    /\ pc = "cleanup_next"
    /\ faults = 0
    /\ diskIter # <<>>
    /\ LET d == DiskOf(Head(diskIter))
           e == IF d.lastAttachTimestamp = FormatRFC3339(now)
                THEN errLastAttachedWithinCutoff
                ELSE checkLabels(d.labels)
           sw == cleanupSwitch(cmd.doSnapshot, cmd.dryRun)
       IN  /\ disk' = d
           /\ diskIter' = Tail(diskIter)
           /\ IF e # nil
              THEN err' = e /\ pc' = "cleanup_next"
              ELSE /\ pc' = sw.pc
                   /\ err' = IF sw.pc = "cleanup_next" THEN sw.err ELSE err
    /\ UNCHANGED <<ctx, disks, snapshots, now, external, nruns, cmd, prev, ret,
                   faults, decided, calls>>

\* doCleanupOne, di.Next() returning a disk: the label check, and where the
\* flags send the disk next
CleanupNext ==
    /\ pc = "cleanup_next"
    /\ faults = 0
    /\ diskIter # <<>>
    /\ LET d == DiskOf(Head(diskIter))
           e == checkLabels(d.labels)
           sw == cleanupSwitch(cmd.doSnapshot, cmd.dryRun)
       IN  /\ disk' = d
           /\ diskIter' = Tail(diskIter)
           /\ IF e # nil
              THEN err' = e /\ pc' = "cleanup_next"
              ELSE /\ pc' = sw.pc
                   /\ err' = IF sw.pc = "cleanup_next" THEN sw.err ELSE err
    /\ UNCHANGED <<ctx, disks, snapshots, now, external, nruns, cmd, prev, ret, faults,
                   decided, calls>>

\* the snapshot of a disk is named "<disk name>-snapshot": one name per disk
snapName(dsk) == dsk.id

\* doCleanupOne, dc.CreateSnapshot answering; the service refuses a snapshot
\* name that exists
CleanupCreateSnapshot ==
    /\ pc = "cleanup_snapshot"
    /\ \E ok \in BOOLEAN :
         /\ ok => /\ ctx = "live"
                  /\ snapName(disk) \notin snapshots
                  /\ disks[disk.id].exists
         /\ calls' = Append(calls, Call("CreateSnapshot", disk, NilLabels, 0, ok))
         /\ IF ok
            THEN /\ snapshots' = snapshots \cup {snapName(disk)}
                 /\ err' = err
                 /\ pc' = "cleanup_wait"
            ELSE /\ snapshots' = snapshots
                 /\ err' = errCreateSnapshot
                 /\ pc' = "cleanup_next"
         /\ cmd' = Answered(ok)
    /\ UNCHANGED <<ctx, disks, now, external, nruns, prev, ret, diskIter, faults,
                   disk, decided>>

\* op.Wait returning and doCleanupOne returning nil after it, without Delete
CleanupWaitNoDelete ==
    /\ pc = "cleanup_wait"
    /\ \E ok \in BOOLEAN :
         /\ ok => ctx = "live"
         /\ calls' = Append(calls, Call("Wait", disk, NilLabels, 0, ok))
         /\ err' = IF ok THEN nil ELSE errWaitSnapshot
         /\ cmd' = Answered(ok)
    /\ pc' = "cleanup_next"
    /\ UNCHANGED <<ctx, disks, snapshots, now, external, nruns, prev, ret, diskIter,
                   faults, disk, decided>>

\* op.Wait returning, its error logged and not returned
CleanupWaitErrorIgnored ==
    /\ pc = "cleanup_wait"
    /\ \E ok \in BOOLEAN :
         /\ ok => ctx = "live"
         /\ calls' = Append(calls, Call("Wait", disk, NilLabels, 0, ok))
         /\ cmd' = Answered(ok)
    /\ pc' = "cleanup_delete"
    /\ UNCHANGED <<ctx, disks, snapshots, now, external, nruns, prev, ret, diskIter,
                   faults, disk, decided, err>>

\* doCleanupOne, op.Wait(ctx) returning; it returns the context's error once
\* the context is cancelled
CleanupWait ==
    /\ pc = "cleanup_wait"
    /\ \E ok \in BOOLEAN :
         /\ ok => ctx = "live"
         /\ calls' = Append(calls, Call("Wait", disk, NilLabels, 0, ok))
         /\ IF ok
            THEN err' = err /\ pc' = "cleanup_delete"
            ELSE err' = errWaitSnapshot /\ pc' = "cleanup_next"
         /\ cmd' = Answered(ok)
    /\ UNCHANGED <<ctx, disks, snapshots, now, external, nruns, prev, ret, diskIter,
                   faults, disk, decided>>

\* dc.Delete answering, a failure returned from doCleanupCmd as its error
CleanupDeleteAbort ==
    /\ pc = "cleanup_delete"
    /\ \E ok \in BOOLEAN :
         /\ ok => ctx = "live" /\ disks[disk.id].exists
         /\ calls' = Append(calls, Call("Delete", disk, NilLabels, 0, ok))
         /\ IF ok
            THEN /\ disks' = [disks EXCEPT ![disk.id].exists = FALSE]
                 /\ err' = nil /\ pc' = "cleanup_next" /\ ret' = ret
            ELSE /\ disks' = disks
                 /\ err' = errDelete /\ pc' = "idle" /\ ret' = errDelete
         /\ cmd' = Answered(ok)
    /\ UNCHANGED <<ctx, snapshots, now, external, nruns, prev, diskIter, faults,
                   disk, decided>>

\* doCleanupOne, dc.Delete answering
CleanupDelete ==
    /\ pc = "cleanup_delete"
    /\ \E ok \in BOOLEAN :
         /\ ok => ctx = "live" /\ disks[disk.id].exists
         /\ calls' = Append(calls, Call("Delete", disk, NilLabels, 0, ok))
         /\ IF ok
            THEN disks' = [disks EXCEPT ![disk.id].exists = FALSE] /\ err' = nil
            ELSE disks' = disks /\ err' = errDelete
         /\ cmd' = Answered(ok)
    /\ pc' = "cleanup_next"
    /\ UNCHANGED <<ctx, snapshots, now, external, nruns, prev, ret, diskIter, faults,
                   disk, decided>>

----------------------------------------------------------------------------
(* The world outside the pipelines *)

InFlight == pc \in {"mark_setlabels", "cleanup_snapshot", "cleanup_wait",
                    "cleanup_delete"}

\* delete(m, k) on a map
MapDelete(m, k) == [x \in (DOMAIN m) \ {k} |-> m[x]]

\* Another actor sets or removes the marked-for-deletion label of a disk.  An
\* edit commutes with every step of a run but the fetch of that disk and the
\* calls made for it, so it is taken between two runs or while the disk is the
\* one being processed; an edit before the first run is another initial state.
ExternalSetLabels ==
    /\ external < MaxExternal
    /\ \E d \in DiskIds, v \in {"true", "false", "<removed>"} :
         /\ \/ pc = "idle" /\ nruns > 0 /\ nruns < MaxRuns
            \/ InFlight /\ d = disk.id
         /\ disks[d].exists
         /\ LET m == IF v = "<removed>"
                     THEN MapDelete(disks[d].labels.m, labelMarkedForDeletion)
                     ELSE MapPut(disks[d].labels.m, labelMarkedForDeletion, v)
            IN  /\ m # disks[d].labels.m
                /\ disks' = [disks EXCEPT ![d].labels = MakeLabels(m),
                                          ![d].labelFingerprint = @ + 1]
    /\ external' = external + 1
    /\ UNCHANGED <<ctx, snapshots, now, nruns, cmd, prev, pc, ret, diskIter, faults,
                   disk, decided, err, calls>>

\* The caller cancels the context.  doCleanupOne blocks only in op.Wait, so
\* the cancellation is taken while the run waits for a snapshot.
CancelContext ==
    /\ pc = "cleanup_wait"
    /\ ctx = "live"
    /\ ctx' = "cancelled"
    /\ UNCHANGED <<disks, snapshots, now, external, nruns, cmd, prev, pc, ret,
                   diskIter, faults, disk, decided, err, calls>>

\* A day passes.  Only handleMarkAction reads the clock, so the day is let
\* pass right before a disk is fetched and decided.
Tick ==
    /\ pc = "mark_next" /\ faults = 0 /\ diskIter # <<>>
    /\ now < MaxNow
    /\ now' = now + 1
    /\ UNCHANGED <<ctx, disks, snapshots, external, nruns, cmd, prev, pc, ret, diskIter,
                   faults, disk, decided, err, calls>>

Cutoffs == 0..MaxCutoffDays

Next ==
    \/ \E cutoff \in Cutoffs, dryRun \in BOOLEAN : doMarkCmd(cutoff, dryRun)
    \/ MarkDone
    \/ MarkIterFault
    \/ MarkNext
    \/ MarkSetLabels
    \/ \E doSnapshot \in BOOLEAN, dryRun \in BOOLEAN : doCleanupCmd(doSnapshot, dryRun)
    \/ CleanupDone
    \/ CleanupIterFault
    \/ CleanupNext
    \/ CleanupCreateSnapshot
    \/ CleanupWait
    \/ CleanupDelete
    \/ ExternalSetLabels
    \/ CancelContext
    \/ Tick

Spec == Init /\ [][Next]_vars

\* The statements of a running command: the loop of doMarkCmd / doCleanupCmd
\* goes on to its next statement, and a service call it made returns.  What the
\* iterator and the service answer, the clock and the other actors are free,
\* but for an iterator that has failed: the loop calls it again and it returns
\* its fault again.
Step ==
    \/ MarkDone \/ MarkNext \/ MarkSetLabels
    \/ CleanupDone \/ CleanupNext \/ CleanupCreateSnapshot \/ CleanupWait
    \/ CleanupDelete
    \/ faults > 0 /\ (MarkIterFault \/ CleanupIterFault)

FairSpec == Spec /\ WF_vars(Step)

----------------------------------------------------------------------------
(* cmd/pvc-cleanup: the mark command of the earlier variant, whose doMarkOne
   decides and labels in one function *)

errEmptyTimestamp == "last attached timestamp is empty"

\* the zero time.Time a never parsed timestamp is left at: so long before
\* every clock reading that no cutoff reaches from it to now
zeroTime == 0 - (MaxCutoffDays + 1)

\* doMarkOne of cmd/pvc-cleanup from the fetched disk to the SetLabels request:
\* the error it returns before the request, or that it goes on to the request
pvcDoMarkOne(lastAttachTimestamp, labels, cutoff, dryRun) ==
    LET parsed == IF lastAttachTimestamp # ""
                  THEN TimeParse(lastAttachTimestamp)
                  ELSE [ok |-> TRUE, t |-> zeroTime]
    IN  IF ~parsed.ok
        THEN [call |-> FALSE, err |-> errParse]
        ELSE IF parsed.t + cutoff > now
        THEN [call |-> FALSE, err |-> errLastAttachedWithinCutoff]
        ELSE IF dryRun
        THEN [call |-> FALSE, err |-> errDryRun]
        ELSE IF MapGet(labels, labelMarkedForDeletion).found
        THEN [call |-> FALSE, err |-> errAlreadyLabelled]
        ELSE [call |-> TRUE, err |-> nil]

\* doMarkCmd of cmd/pvc-cleanup up to its loop
pvcDoMarkCmd(cutoff, dryRun) ==
    /\ pc = "idle"
    /\ nruns < MaxRuns
    /\ nruns' = nruns + 1
    /\ cmd' = [MarkRun(cutoff, dryRun) EXCEPT !.kind = "pvc-mark"]
    /\ diskIter' = List
    /\ faults' = 0
    /\ pc' = "pvc_mark_next"
    /\ ret' = "running"
    /\ disk' = NoDisk /\ decided' = Undecided /\ err' = nil /\ calls' = <<>>
    /\ ctx' = "live"
    /\ UNCHANGED <<disks, snapshots, now, external, prev>>

\* di.Next() returning iterator.Done: doMarkCmd returns nil
pvcMarkDone ==
    /\ pc = "pvc_mark_next"
    /\ faults = 0
    /\ diskIter = <<>>
    /\ err' = iteratorDone
    /\ ret' = nil
    /\ pc' = "idle"
    /\ cmd' = NoRun /\ disk' = NoDisk /\ decided' = Undecided /\ calls' = <<>>
    /\ UNCHANGED <<ctx, disks, snapshots, now, external, nruns, prev, diskIter,
                   faults>>

\* di.Next() returning another error: logged by the default case, and the loop
\* goes on
pvcMarkIterFault ==
    /\ pc = "pvc_mark_next"
    /\ faults' = IF faults < MaxFaults THEN faults + 1 ELSE 1
    /\ err' = errIterating
    /\ cmd' = Answered(FALSE)
    /\ UNCHANGED <<ctx, disks, snapshots, now, external, nruns, prev, pc, ret,
                   diskIter, disk, decided, calls>>

\* di.Next() returning a disk: doMarkOne up to its return or its request
pvcMarkNext ==
    /\ pc = "pvc_mark_next"
    /\ faults = 0
    /\ diskIter # <<>>
    /\ LET d == DiskOf(Head(diskIter))
           r == pvcDoMarkOne(d.lastAttachTimestamp, d.labels, cmd.cutoff,
                             cmd.dryRun)
       IN  /\ disk' = d
           /\ diskIter' = Tail(diskIter)
           /\ decided' = [action |-> IF r.call THEN actionMark ELSE actionSkip,
                          err |-> r.err, now |-> now]
           /\ IF r.call
              THEN err' = err /\ pc' = "pvc_mark_setlabels"
              ELSE err' = r.err /\ pc' = "pvc_mark_next"
    /\ UNCHANGED <<ctx, disks, snapshots, now, external, nruns, cmd, prev, ret,
                   faults, calls>>

\* dc.SetLabels with the fetched labels plus marked-for-deletion = "true" and
\* the fetched fingerprint
pvcMarkSetLabels ==
    /\ pc = "pvc_mark_setlabels"
    /\ LET labels == MakeLabels(MapPut(disk.labels.m, labelMarkedForDeletion,
                                       "true"))
       IN \E ok \in BOOLEAN :
            /\ ok => SetLabelsAccepted(disk.id, disk.labelFingerprint)
            /\ calls' = Append(calls, Call("SetLabels", disk, labels,
                                           disk.labelFingerprint, ok))
            /\ IF ok
               THEN /\ disks' = [disks EXCEPT
                          ![disk.id].labels = labels,
                          ![disk.id].labelFingerprint = @ + 1]
                    /\ err' = nil
               ELSE /\ disks' = disks
                    /\ err' = errUpdatingLabels
            /\ cmd' = Answered(ok)
    /\ pc' = "pvc_mark_next"
    /\ UNCHANGED <<ctx, snapshots, now, external, nruns, prev, ret, diskIter,
                   faults, disk, decided>>

\* the clock moving on between two runs of the command
pvcTick ==
    /\ pc = "idle" /\ nruns > 0
    /\ now < MaxNow
    /\ now' = now + 1
    /\ UNCHANGED <<ctx, disks, snapshots, external, nruns, cmd, prev, pc, ret,
                   diskIter, faults, disk, decided, err, calls>>

PvcNext ==
    \/ \E cutoff \in Cutoffs, dryRun \in BOOLEAN : pvcDoMarkCmd(cutoff, dryRun)
    \/ pvcMarkDone
    \/ pvcMarkIterFault
    \/ pvcMarkNext
    \/ pvcMarkSetLabels
    \/ pvcTick

PvcSpec == Init /\ [][PvcNext]_vars

----------------------------------------------------------------------------
(* cmd/cleanup: the cleanup command of the first variant, whose doCleanupOne
   is not written yet *)

errNotImplemented == "TODO: not implemented yet"

\* Filter "labels.marked-for-deletion:*": the disks carrying the label
RECURSIVE ListLabelledFrom(_)
ListLabelledFrom(d) ==
    IF d > NumDisks THEN <<>>
    ELSE IF disks[d].exists /\ MapGet(disks[d].labels, labelMarkedForDeletion).found
    THEN <<d>> \o ListLabelledFrom(d + 1)
    ELSE ListLabelledFrom(d + 1)

\* doCleanupCmd of cmd/cleanup up to its loop
stubDoCleanupCmd(dryRun) ==
    /\ pc = "idle"
    /\ nruns < MaxRuns
    /\ nruns' = nruns + 1
    /\ cmd' = [CleanupRun(FALSE, dryRun) EXCEPT !.kind = "stub-cleanup"]
    /\ diskIter' = ListLabelledFrom(1)
    /\ faults' = 0
    /\ pc' = "stub_cleanup_one"
    /\ ret' = "running"
    /\ disk' = NoDisk /\ decided' = Undecided /\ err' = nil /\ calls' = <<>>
    /\ ctx' = "live"
    /\ UNCHANGED <<disks, snapshots, now, external, prev>>

\* doCleanupOne of cmd/cleanup: returns its error without a look at the
\* iterator
stubDoCleanupOne ==
    /\ pc = "stub_cleanup_one"
    /\ err' = errNotImplemented
    /\ pc' = "stub_cleanup_switch"
    /\ UNCHANGED <<ctx, disks, snapshots, now, external, nruns, cmd, prev, ret,
                   diskIter, faults, disk, decided, calls>>

\* doCleanupCmd of cmd/cleanup, the switch on the error doCleanupOne returned:
\* iterator.Done returns nil, every other error is logged and the loop calls
\* doCleanupOne again
stubCleanupSwitch ==
    /\ pc = "stub_cleanup_switch"
    /\ IF err = iteratorDone
       THEN /\ ret' = nil
            /\ pc' = "idle"
            /\ cmd' = NoRun
       ELSE /\ ret' = ret
            /\ pc' = "stub_cleanup_one"
            /\ cmd' = cmd
    /\ UNCHANGED <<ctx, disks, snapshots, now, external, nruns, prev, diskIter,
                   faults, disk, decided, err, calls>>

StubNext ==
    \/ \E dryRun \in BOOLEAN : stubDoCleanupCmd(dryRun)
    \/ stubDoCleanupOne
    \/ stubCleanupSwitch

\* the command, once started, runs on
StubSpec == Init /\ [][StubNext]_vars /\ WF_vars(stubDoCleanupOne \/ stubCleanupSwitch)

----------------------------------------------------------------------------
(* Properties *)

\* the marked-for-deletion label of a fetched disk
MarkLabel(dsk) == MapGet(dsk.labels, labelMarkedForDeletion)

MarkedTrue(dsk) == MarkLabel(dsk).found /\ MarkLabel(dsk).val = "true"

\* the calls of the current run made with operation op
CallsOf(op) == { i \in DOMAIN calls : calls[i].op = op }

\* the mark run has decided on the disk it fetched last
Decided == cmd.kind = "mark" /\ disk.id # 0

\* the fetched disk carries a timestamp that parses, and the time from it to
\* the clock reading of the decision
Parsable == disk.lastAttachTimestamp # "" /\ TimeParse(disk.lastAttachTimestamp).ok
Elapsed == decided.now - TimeParse(disk.lastAttachTimestamp).t

\* C1: the cleanup pipeline issues Delete, and stands ready to issue it, only
\* for a disk whose fetched label map holds marked-for-deletion = "true".
C1_DeleteOnlyMarkedTrue ==
    /\ \A i \in CallsOf("Delete") : MarkedTrue(calls[i].fetched)
    /\ pc = "cleanup_delete" => MarkedTrue(disk)

\* C1 witness: a cleanup run that deletes was handed a disk whose label is
\* present with another value, and returned from doCleanupOne without Delete.
C1_Witness ==
    /\ cmd.kind = "cleanup" /\ ~cmd.dryRun
    /\ disk.id # 0 /\ MarkLabel(disk).found /\ MarkLabel(disk).val = "false"
    /\ pc = "cleanup_next" /\ err = errWrongLabelValue
    /\ CallsOf("Delete") # {}

\* C2: with doSnapshot, every Delete comes right after a CreateSnapshot of the
\* same disk that succeeded and the Wait on it that returned without error.
C2_SnapshotWaitBeforeDelete ==
    cmd.kind = "cleanup" /\ cmd.doSnapshot =>
        \A i \in CallsOf("Delete") :
            /\ i > 2
            /\ calls[i-2].op = "CreateSnapshot" /\ calls[i-2].ok
            /\ calls[i-2].disk = calls[i].disk
            /\ calls[i-1].op = "Wait" /\ calls[i-1].ok
            /\ calls[i-1].disk = calls[i].disk

\* C2 witness: a run with doSnapshot has issued a Delete.
C2_Witness ==
    cmd.kind = "cleanup" /\ cmd.doSnapshot /\ CallsOf("Delete") # {}

\* C3: no Delete is issued in a run for a disk whose CreateSnapshot or Wait
\* failed in that run, nor is the run about to issue one.
C3_NoDeleteAfterFailedSnapshot ==
    \A i \in CallsOf("CreateSnapshot") \cup CallsOf("Wait") :
        ~calls[i].ok =>
            /\ \A j \in CallsOf("Delete") : calls[j].disk # calls[i].disk
            /\ ~(pc = "cleanup_delete" /\ disk.id = calls[i].disk)

\* C3 witness: the Wait for one disk failed and the run went on to delete
\* another disk.
C3_Witness ==
    \E i \in CallsOf("Wait"), j \in CallsOf("Delete") :
        ~calls[i].ok /\ i < j /\ calls[j].ok

\* C4: a run with dryRun issues no service call and never stands at one.
C4_DryRunIssuesNoCall ==
    cmd.dryRun => calls = <<>> /\ ~InFlight

\* C4 witness: a dry run decided Mark or Unmark for a disk and returned
\* errDryRun from doMarkOne.
C4_Witness ==
    /\ Decided /\ cmd.dryRun
    /\ decided.action # actionSkip
    /\ err = errDryRun

C6_RecentMarkedIsUnmarked ==
    Decided /\ Parsable /\ Elapsed < cmd.cutoff /\ MarkedTrue(disk) =>
        decided.action = actionUnmark /\ decided.err = nil

\* C6 witness: such a disk was decided.
C6_Witness ==
    Decided /\ Parsable /\ Elapsed < cmd.cutoff /\ MarkedTrue(disk)

\* C7 as stated: a disk attached less than cutoff ago and not labelled "true"
\* is decided Skip with the diagnostic errLastAttachedWithinCutoff.
C7_RecentUnmarkedSkipsWithDiagnostic ==
    Decided /\ Parsable /\ Elapsed < cmd.cutoff /\ ~MarkedTrue(disk) =>
        decided.action = actionSkip /\ decided.err = errLastAttachedWithinCutoff

\* C7 amended: a disk attached less than cutoff ago and not labelled "true" is
\* decided Skip with no error, and doMarkOne returns nil for it.
C7_RecentUnmarkedSkipsSilently ==
    Decided /\ Parsable /\ Elapsed < cmd.cutoff /\ ~MarkedTrue(disk) =>
        /\ decided.action = actionSkip /\ decided.err = nil
        /\ pc = "mark_next" /\ (faults = 0 => err = nil)

\* C7 witness: such a disk, labelled "false", was decided.
C7_Witness ==
    /\ Decided /\ Parsable /\ Elapsed < cmd.cutoff
    /\ MarkLabel(disk).found /\ MarkLabel(disk).val = "false"

\* C8: a disk attached cutoff ago or longer is decided Skip with
\* errAlreadyLabelled when labelled "true", Skip with errUnlabelled when the
\* label is present with another value, and Mark when the label is absent.
C8_PastCutoffDecision ==
    Decided /\ Parsable /\ Elapsed >= cmd.cutoff =>
        /\ MarkedTrue(disk) =>
             decided.action = actionSkip /\ decided.err = errAlreadyLabelled
        /\ MarkLabel(disk).found /\ MarkLabel(disk).val # "true" =>
             decided.action = actionSkip /\ decided.err = errUnlabelled
        /\ ~MarkLabel(disk).found =>
             decided.action = actionMark /\ decided.err = nil

\* C8 witness: a disk attached exactly cutoff ago, the cutoff not zero, with
\* no label, was decided.
C8_Witness ==
    /\ Decided /\ Parsable /\ Elapsed = cmd.cutoff /\ cmd.cutoff > 0
    /\ ~MarkLabel(disk).found

\* the current run is a mark run with dryRun=false that follows a mark run
\* with dryRun=false and the same cutoff, whose calls all succeeded, with no
\* day passed and no external edit since that run started
SecondMarkRun ==
    /\ cmd.kind = "mark" /\ ~cmd.dryRun
    /\ prev.kind = "mark" /\ prev.cutoff = cmd.cutoff
    /\ now = prev.now0 /\ external = prev.external0

\* C9 as stated: on the second of two mark runs in succession every disk is
\* decided Skip and no SetLabels is issued.
C9_SecondRunSkipsAll ==
    SecondMarkRun =>
        /\ pc # "mark_setlabels" /\ CallsOf("SetLabels") = {}
        /\ decided.action = actionSkip

\* C10 as stated: the mark pipeline issues SetLabels, and stands ready to
\* issue it, for no disk whose fetched label is present with a value other
\* than "true".
C10_OptOutNeverOverridden ==
    /\ \A i \in CallsOf("SetLabels") :
         ~(MarkLabel(calls[i].fetched).found
             /\ MarkLabel(calls[i].fetched).val # "true")
    /\ pc = "mark_setlabels" =>
         ~(MarkLabel(disk).found /\ MarkLabel(disk).val # "true")

\* C11 as stated: once the iterator has returned a fault the run ends, so the
\* iterator is never called again and returns its fault at most once in a run.
C11_FaultEndsRun ==
    faults <= 1

\* C12 as stated: once the iterator has returned a fault, doMarkCmd /
\* doCleanupCmd has returned that fault to its caller.
C12_FaultReturnedToCaller ==
    faults > 0 => ret = errIterating

\* C13 as stated: every run that was started returns, an iterator fault
\* included.
C13_RunReturns ==
    (ret = "running") ~> (ret # "running")

\* the call the current run issued last
LastCall == calls[Len(calls)]

\* the disks the iterator of the current run has not returned yet
Unfetched == { diskIter[i] : i \in DOMAIN diskIter }

\* C14: whatever the service answers to SetLabels, accepted or rejected, the
\* mark run goes on to its next fetch with the same iterator, the same flags
\* and clock, and the disks it has yet to fetch untouched: the later disks are
\* fetched, decided and labelled as they would have been had the call succeeded.
C14_RejectedSetLabelsIsolated ==
    [][ pc = "mark_setlabels" /\ calls' # calls =>
          /\ pc' = "mark_next" /\ ret' = "running"
          /\ diskIter' = diskIter /\ faults' = faults
          /\ cmd'.cutoff = cmd.cutoff /\ cmd'.dryRun = cmd.dryRun /\ now' = now
          /\ \A d \in Unfetched : disks'[d] = disks[d] ]_vars

\* C14 witness: in one mark run SetLabels was rejected for a disk and then
\* accepted for a later disk.
C14_Witness ==
    /\ cmd.kind = "mark"
    /\ \E i, j \in CallsOf("SetLabels") :
         i < j /\ ~calls[i].ok /\ calls[j].ok /\ calls[i].disk < calls[j].disk

\* C15: when CreateSnapshot, the wait or Delete fails for a disk, the cleanup
\* run leaves the service as it is and goes on to its next fetch with the same
\* iterator and flags: only that disk is abandoned.
C15_CleanupFaultIsolated ==
    [][ /\ pc \in {"cleanup_snapshot", "cleanup_wait", "cleanup_delete"}
        /\ calls' # calls
        /\ ~LastCall'.ok
        => /\ pc' = "cleanup_next" /\ ret' = "running"
           /\ diskIter' = diskIter /\ faults' = faults
           /\ cmd'.doSnapshot = cmd.doSnapshot /\ cmd'.dryRun = cmd.dryRun
           /\ disks' = disks /\ snapshots' = snapshots ]_vars

\* C15 witness: in one cleanup run Delete failed for a disk and a later disk
\* was snapshotted and deleted.
C15_Witness ==
    /\ cmd.kind = "cleanup" /\ cmd.doSnapshot
    /\ \E i, j \in CallsOf("Delete") :
         i < j /\ ~calls[i].ok /\ calls[j].ok /\ calls[i].disk < calls[j].disk

\* C16: the label map of every SetLabels request is a map (never nil) that
\* holds the keys of the fetched label map and marked-for-deletion, agrees with
\* the fetched map on every other key, and holds "true" for Mark and "false"
\* for Unmark; a disk fetched without a label map gets the one label.
C16_SetLabelsPreservesOtherLabels ==
    /\ \A i \in CallsOf("SetLabels") :
         LET req == calls[i].labels
             old == calls[i].fetched.labels
         IN  /\ ~req.isNil
             /\ DOMAIN req.m = (DOMAIN old.m) \cup {labelMarkedForDeletion}
             /\ \A k \in (DOMAIN old.m) \ {labelMarkedForDeletion} :
                    req.m[k] = old.m[k]
             /\ req.m[labelMarkedForDeletion] \in {"true", "false"}
    /\ calls # <<>> /\ LastCall.op = "SetLabels" /\ LastCall.disk = disk.id =>
         /\ decided.action = actionMark =>
                LastCall.labels.m[labelMarkedForDeletion] = "true"
         /\ decided.action = actionUnmark =>
                LastCall.labels.m[labelMarkedForDeletion] = "false"
         /\ decided.action # actionSkip

\* C16 witness: one run marked a disk fetched without a label map and
\* unmarked a disk that carries another label.
C16_Witness ==
    \E i, j \in CallsOf("SetLabels") :
        /\ calls[i].fetched.labels.isNil
        /\ calls[i].labels.m[labelMarkedForDeletion] = "true"
        /\ OtherKey \in DOMAIN calls[j].fetched.labels.m
        /\ calls[j].labels.m[labelMarkedForDeletion] = "false"

\* C17: every SetLabels request carries the label fingerprint of the fetched
\* disk, and when the disk's labels or fingerprint at the service are no longer
\* the fetched ones the service rejects the request and the disk keeps the
\* labels it has.
C17_StaleSetLabelsRejected ==
    [][ Len(calls') > Len(calls) /\ LastCall'.op = "SetLabels" =>
          /\ LastCall'.fingerprint = disk.labelFingerprint
          /\ \/ disks[disk.id].labelFingerprint # disk.labelFingerprint
             \/ disks[disk.id].labels # disk.labels
             => ~LastCall'.ok /\ disks' = disks ]_vars

\* C17 witness: a SetLabels request was rejected for a disk whose labels
\* another actor changed after the fetch, and the disk still has those labels.
C17_Witness ==
    /\ calls # <<>> /\ LastCall.op = "SetLabels" /\ ~LastCall.ok
    /\ external > cmd.external0
    /\ disks[LastCall.disk].labels # LastCall.fetched.labels
    /\ disks[LastCall.disk].labels # LastCall.labels

\* C18 as stated: a Delete that the service accepted was made for a disk whose
\* labels at the service were still the fetched ones (a disk edited after its
\* fetch is not destroyed).
C18_StaleDeleteRejected ==
    \A i \in CallsOf("Delete") :
        calls[i].ok => disks[calls[i].disk].labels = calls[i].fetched.labels

\* C19 as stated: once the context is cancelled and the wait has returned, the
\* cleanup run has returned to its caller.
C19_CancelStopsRun ==
    ctx = "cancelled" /\ pc # "cleanup_wait" => pc = "idle"

\* C20: every service call is made for the disk fetched last, which the
\* iterator no longer holds, and leaves the iterator alone; calls come in fetch
\* order; and a disk is fetched only when no call for the disk before it is
\* outstanding, one disk at a time from the head of the iterator.
C20_OneDiskAtATime ==
    [][ /\ Len(calls') > Len(calls) =>
             /\ calls' = Append(calls, LastCall')
             /\ LastCall'.disk = disk.id /\ LastCall'.fetched = disk
             /\ disk' = disk /\ diskIter' = diskIter
             /\ disk.id \notin Unfetched
             /\ calls # <<>> => LastCall.disk <= LastCall'.disk
        /\ diskIter' # diskIter /\ pc # "idle" =>
             /\ ~InFlight
             /\ diskIter # <<>> /\ diskIter' = Tail(diskIter)
             /\ disk'.id = Head(diskIter)
             /\ calls' = calls ]_vars

\* C20 witness: a cleanup run snapshotted, waited for and deleted one disk and
\* then another.
C20_Witness ==
    /\ cmd.kind = "cleanup"
    /\ Len(calls) = 6
    /\ calls[3].op = "Delete" /\ calls[6].op = "Delete"
    /\ calls[3].disk # calls[6].disk

\* the calls of the current run made with operation op for disk d
CallsFor(op, d) == { i \in CallsOf(op) : calls[i].disk = d }

\* C21: a run issues at most one SetLabels, one CreateSnapshot, one wait and
\* one Delete for a disk, whether the call fails or not.
C21_NoRetry ==
    \A d \in DiskIds :
        \A op \in {"SetLabels", "CreateSnapshot", "Wait", "Delete"} :
            Cardinality(CallsFor(op, d)) <= 1

\* C21 witness: SetLabels failed for a disk and the run has fetched the next
\* disk; and in a cleanup run Delete failed for a disk and the run has fetched
\* the next.
C21_Witness ==
    /\ calls # <<>> /\ ~LastCall.ok
    /\ LastCall.op \in {"SetLabels", "Delete"}
    /\ disk.id # LastCall.disk

\* the value of marked-for-deletion in the label map of a SetLabels request
RequestValue(c) == c.labels.m[labelMarkedForDeletion]

\* C22: in a mark run with dryRun=false, the disk fetched last gets a SetLabels
\* request with marked-for-deletion="false" exactly when its fetched label is
\* "true" and it was attached less than cutoff ago; every request that holds
\* "false" was made for a disk fetched with the label "true", and every other
\* request made for such a disk holds "true".
C22_TrueChangedOnlyByUnmark ==
    /\ \A i \in CallsOf("SetLabels") :
         /\ RequestValue(calls[i]) = "false" => MarkedTrue(calls[i].fetched)
         /\ MarkedTrue(calls[i].fetched) => RequestValue(calls[i]) \in {"true", "false"}
    /\ Decided /\ ~cmd.dryRun =>
         LET unmarked ==
                 \/ pc = "mark_setlabels" /\ MarkValueOf(decided.action) = "false"
                 \/ \E i \in CallsFor("SetLabels", disk.id) :
                        RequestValue(calls[i]) = "false"
         IN  unmarked <=> (MarkedTrue(disk) /\ Parsable /\ Elapsed < cmd.cutoff)

\* C22 witness: the service accepted a request that replaced "true" by "false".
C22_Witness ==
    \E i \in CallsOf("SetLabels") :
        /\ calls[i].ok /\ RequestValue(calls[i]) = "false"
        /\ MarkedTrue(calls[i].fetched)
        /\ ~MarkedTrue(DiskOf(calls[i].disk))

\* C23: a run returns only in a step in which the iterator reports
\* iterator.Done, having returned every disk and no fault, and then it returns
\* nil; no error of a disk ends the run.
C23_ReturnsOnlyOnDone ==
    [][ ret = "running" /\ ret' # "running" =>
          /\ ret' = nil /\ err' = iteratorDone
          /\ diskIter = <<>> /\ faults = 0
          /\ pc \in {"mark_next", "cleanup_next"} /\ pc' = "idle" ]_vars

\* C23 witness: the first run has returned nil although a call made for a disk
\* had failed: the disk was snapshotted and still exists.
C23_Witness ==
    /\ ret = nil /\ pc = "idle" /\ nruns = 1 /\ err = iteratorDone
    /\ \E d \in snapshots : disks[d].exists

\* the calls of the current run for disk d are one CreateSnapshot, one wait
\* and one Delete, in this order
SnapshottedThenDeleted(d) ==
    /\ Cardinality(CallsFor("CreateSnapshot", d)) = 1
    /\ Cardinality(CallsFor("Wait", d)) = 1
    /\ Cardinality(CallsFor("Delete", d)) = 1
    /\ \A i \in CallsFor("CreateSnapshot", d), j \in CallsFor("Wait", d),
          k \in CallsFor("Delete", d) : i < j /\ j < k

\* C24: in a cleanup run with dryRun=false and doSnapshot=true in which the
\* iterator and every call have succeeded so far, the disk fetched last, when
\* labelled "true", stands at its CreateSnapshot, wait or Delete with the calls
\* before it issued once, or has had one CreateSnapshot, one wait and one
\* Delete in this order; and so has every disk fetched before it that a call
\* was made for.
C24_MarkedSnapshottedThenDeleted ==
    cmd.kind = "cleanup" /\ ~cmd.dryRun /\ cmd.doSnapshot /\ cmd.clean =>
        /\ disk.id # 0 /\ MarkedTrue(disk) =>
             LET s == Cardinality(CallsFor("CreateSnapshot", disk.id))
                 w == Cardinality(CallsFor("Wait", disk.id))
                 x == Cardinality(CallsFor("Delete", disk.id))
             IN  \/ pc = "cleanup_snapshot" /\ s = 0 /\ w = 0 /\ x = 0
                 \/ pc = "cleanup_wait" /\ s = 1 /\ w = 0 /\ x = 0
                 \/ pc = "cleanup_delete" /\ s = 1 /\ w = 1 /\ x = 0
                 \/ pc = "cleanup_next" /\ SnapshottedThenDeleted(disk.id)
        /\ disk.id # 0 /\ ~MarkedTrue(disk) =>
             pc = "cleanup_next" /\ \A i \in DOMAIN calls : calls[i].disk # disk.id
        /\ \A d \in DiskIds \ {disk.id} :
             (\E i \in DOMAIN calls : calls[i].disk = d) =>
                 SnapshottedThenDeleted(d) /\ ~disks[d].exists

\* C24 witness: such a run is about to return with two disks snapshotted and
\* deleted.
C24_Witness ==
    /\ cmd.kind = "cleanup" /\ ~cmd.dryRun /\ cmd.doSnapshot /\ cmd.clean
    /\ pc = "cleanup_next" /\ diskIter = <<>>
    /\ \A d \in 1..2 : SnapshottedThenDeleted(d) /\ ~disks[d].exists

\* C25: a cleanup run with doSnapshot=false issues no CreateSnapshot and no
\* wait, and with dryRun=false the disk fetched last, when labelled "true",
\* stands at its Delete or has had its one Delete.
C25_NoSnapshotStillDeletes ==
    cmd.kind = "cleanup" /\ ~cmd.doSnapshot =>
        /\ CallsOf("CreateSnapshot") = {} /\ CallsOf("Wait") = {}
        /\ pc \notin {"cleanup_snapshot", "cleanup_wait"}
        /\ ~cmd.dryRun /\ disk.id # 0 /\ MarkedTrue(disk) =>
             \/ pc = "cleanup_delete" /\ CallsFor("Delete", disk.id) = {}
             \/ pc = "cleanup_next"
                  /\ Cardinality(CallsFor("Delete", disk.id)) = 1

\* C25 witness: a run with doSnapshot=false deleted a disk and no snapshot
\* exists.
C25_Witness ==
    /\ cmd.kind = "cleanup" /\ ~cmd.doSnapshot /\ ~cmd.dryRun
    /\ snapshots = {}
    /\ \E i \in CallsOf("Delete") : calls[i].ok /\ ~disks[calls[i].disk].exists

\* C26: in a mark run with dryRun=false the disk fetched last, when decided
\* Mark, stands at its SetLabels or has had one SetLabels, whose label map
\* holds marked-for-deletion="true"; and a disk without the label that was
\* attached cutoff ago or longer is decided Mark.
C26_MarkedDiskGetsOneSetLabels ==
    Decided /\ ~cmd.dryRun =>
        /\ decided.action = actionMark =>
             \/ pc = "mark_setlabels" /\ CallsFor("SetLabels", disk.id) = {}
             \/ /\ pc = "mark_next"
                /\ Cardinality(CallsFor("SetLabels", disk.id)) = 1
                /\ \A i \in CallsFor("SetLabels", disk.id) :
                      RequestValue(calls[i]) = "true"
        /\ Parsable /\ Elapsed >= cmd.cutoff /\ ~MarkLabel(disk).found =>
             decided.action = actionMark

\* C26 witness: a disk without the label, attached cutoff ago or longer with
\* a cutoff that is not zero, was marked by an accepted SetLabels.
C26_Witness ==
    /\ Decided /\ ~cmd.dryRun /\ cmd.cutoff > 0
    /\ Parsable /\ Elapsed >= cmd.cutoff /\ ~MarkLabel(disk).found
    /\ \E i \in CallsFor("SetLabels", disk.id) :
         calls[i].ok /\ RequestValue(calls[i]) = "true"

\* the fetched disk carries a timestamp that is neither empty nor a time
Unparsable ==
    disk.lastAttachTimestamp \notin {""} \cup { FormatRFC3339(t) : t \in Days }

\* C27: a disk whose last-attach timestamp is present and not a time is
\* decided Skip with the parse error, which doMarkOne returns; no SetLabels is
\* issued for it and the run goes on to its next fetch.
C27_UnparsableIsSkippedWithError ==
    Decided /\ Unparsable =>
        /\ decided.action = actionSkip /\ decided.err = errParse
        /\ faults = 0 => err = errParse
        /\ pc = "mark_next" /\ ret = "running"
        /\ CallsFor("SetLabels", disk.id) = {}

\* C27 witness: a mark run fetched a first disk with such a timestamp and then
\* labelled the second disk.
C27_Witness ==
    /\ cmd.kind = "mark" /\ nruns = 1
    /\ disks[1].lastAttachTimestamp = "invalid"
    /\ \E i \in CallsFor("SetLabels", 2) : calls[i].ok

\* C28 as stated: a disk decided Skip with errAlreadyLabelled or errUnlabelled
\* is not logged at the error level.
C28_DiagnosticsBelowErrorLevel ==
    /\ Decided /\ pc = "mark_next" /\ faults = 0
    /\ decided.err \in {errAlreadyLabelled, errUnlabelled}
    => markLogLevel(err) # "error"

\* C29: a disk the cleanup run fetched without the label "true" (no label map,
\* no label, or another value) makes doCleanupOne return the error of the label
\* check; no call is issued for the disk and the run goes on to its next fetch.
C29_LabelViolationIssuesNoCall ==
    cmd.kind = "cleanup" /\ disk.id # 0 /\ ~MarkedTrue(disk) =>
        /\ pc = "cleanup_next" /\ ret = "running"
        /\ faults = 0 =>
             err = IF MarkLabel(disk).found THEN errWrongLabelValue
                   ELSE errMissingLabel
        /\ \A i \in DOMAIN calls : calls[i].disk # disk.id

\* C29 witness: a cleanup run fetched a first disk without a label map and
\* then deleted the second disk.
C29_Witness ==
    /\ cmd.kind = "cleanup" /\ nruns = 1
    /\ disks[1].exists /\ disks[1].labels.isNil
    /\ \E i \in CallsFor("Delete", 2) : calls[i].ok

\* C30: the step that decides on a fetched disk changes nothing at the service
\* and issues no call, and its decision is the one handleMarkAction returns
\* for the disk's timestamp and the cutoff with any label map that agrees with
\* the disk's on the presence and value of marked-for-deletion.
C30_DecisionIsPure ==
    [][ cmd.kind = "mark" /\ pc = "mark_next" /\ diskIter' # diskIter =>
          /\ calls' = calls /\ disks' = disks /\ snapshots' = snapshots
          /\ \A l \in LabelMaps :
                MapGet(l, labelMarkedForDeletion) =
                    MapGet(disk'.labels, labelMarkedForDeletion)
                => handleMarkAction(disk'.lastAttachTimestamp, l, cmd.cutoff)
                     = [action |-> decided'.action, err |-> decided'.err] ]_vars

\* C30 witness: the second disk, which carries another label, was decided
\* Unmark.
C30_Witness ==
    /\ Decided /\ disk.id = 2
    /\ MapGet(disk.labels, OtherKey).found
    /\ decided.action = actionUnmark

\* C31: a mark run issues SetLabels only and a cleanup run issues no
\* SetLabels, nor does either stand at a call of the other.
C31_DisjointMutations ==
    /\ cmd.kind = "mark" =>
         /\ \A i \in DOMAIN calls : calls[i].op = "SetLabels"
         /\ pc \in {"mark_next", "mark_setlabels"}
    /\ cmd.kind = "cleanup" =>
         /\ CallsOf("SetLabels") = {}
         /\ pc \in {"cleanup_next", "cleanup_snapshot", "cleanup_wait",
                     "cleanup_delete"}

\* C31 witness: a cleanup run that follows a mark run has deleted a disk.
C31_Witness ==
    /\ cmd.kind = "cleanup" /\ prev.kind = "mark"
    /\ \E i \in CallsOf("Delete") : calls[i].ok

\* where doCleanupOne goes for a fetched disk, from the disk's
\* marked-for-deletion label and the flags alone
CleanupRoute(dsk, doSnapshot, dryRun) ==
    IF ~MarkedTrue(dsk) \/ dryRun THEN "cleanup_next"
    ELSE IF doSnapshot THEN "cleanup_snapshot"
    ELSE "cleanup_delete"

\* C32: what a cleanup run does with a fetched disk follows from the disk's
\* marked-for-deletion label and the flags, and what it does after a call
\* follows from the call and the service's answer; the last-attach time and the
\* other labels play no part.
C32_CleanupDependsOnLabelOnly ==
    [][ /\ cmd.kind = "cleanup" /\ pc = "cleanup_next" /\ diskIter' # diskIter =>
             pc' = CleanupRoute(disk', cmd.doSnapshot, cmd.dryRun)
        /\ cmd.kind = "cleanup" /\ Len(calls') > Len(calls) =>
             /\ pc = "cleanup_snapshot" =>
                  /\ LastCall'.op = "CreateSnapshot"
                  /\ pc' = IF LastCall'.ok THEN "cleanup_wait" ELSE "cleanup_next"
             /\ pc = "cleanup_wait" =>
                  /\ LastCall'.op = "Wait"
                  /\ pc' = IF LastCall'.ok THEN "cleanup_delete" ELSE "cleanup_next"
             /\ pc = "cleanup_delete" =>
                  /\ LastCall'.op = "Delete"
                  /\ pc' = "cleanup_next" ]_vars

\* C32 witness: a cleanup run deleted a disk that was attached today and
\* carries another label.
C32_Witness ==
    /\ cmd.kind = "cleanup"
    /\ \E i \in CallsOf("Delete") :
         /\ calls[i].ok
         /\ calls[i].fetched.lastAttachTimestamp = FormatRFC3339(now)
         /\ MapGet(calls[i].fetched.labels, OtherKey).found

\* a fetched disk with a timestamp that is not empty and a marked-for-deletion
\* label that holds another value than "true"
OptedOut(dsk) ==
    /\ dsk.lastAttachTimestamp # ""
    /\ MarkLabel(dsk).found /\ MarkLabel(dsk).val # "true"

\* C33: a mark run issues SetLabels, and stands ready to issue it, for no disk
\* that has a last-attach timestamp and a marked-for-deletion label with
\* another value than "true", however long ago the disk was attached.
C33_UnmarkedStaysUnmarked ==
    /\ \A i \in CallsOf("SetLabels") : ~OptedOut(calls[i].fetched)
    /\ Decided /\ OptedOut(disk) =>
         /\ decided.action = actionSkip
         /\ pc = "mark_next"

\* C33 witness: with no external edit, the second run decides on a disk that
\* carries the "false" a run wrote and was attached cutoff ago or longer, the
\* cutoff not zero.
C33_Witness ==
    /\ Decided /\ nruns = 2 /\ external = 0
    /\ prev.kind = "mark"
    /\ Parsable /\ Elapsed >= cmd.cutoff /\ cmd.cutoff > 0
    /\ MarkLabel(disk).found /\ MarkLabel(disk).val = "false"
    /\ disk.labelFingerprint > 0
    /\ decided.err = errUnlabelled

\* C34 as stated: in a cleanup run with doSnapshot=true and dryRun=false, a
\* disk labelled "true" whose snapshot exists from an earlier run (its
\* CreateSnapshot is refused in this run) still gets its Delete by the time
\* doCleanupOne has returned for it.
C34_DeleteReachedAfterPartialFailure ==
    /\ cmd.kind = "cleanup" /\ cmd.doSnapshot /\ ~cmd.dryRun
    /\ disk.id # 0 /\ MarkedTrue(disk)
    /\ snapName(disk) \in snapshots
    /\ \A i \in CallsFor("CreateSnapshot", disk.id) : ~calls[i].ok
    /\ pc = "cleanup_next"
    => CallsFor("Delete", disk.id) # {}

\* C35 as stated: for every --cutoff of N days the computed cutoff is not
\* negative, and a disk attached less than N days ago is within it (so never
\* decided Mark).
C35_CutoffNeverWraps ==
    Decided /\ Parsable /\ Elapsed >= 0 =>
        \A N \in FlagCutoffs :
            /\ ~Negative64(cutoffDuration(N))
            /\ Elapsed < N => lastAttachedWithinCutoff64(Elapsed, N)

\* C36 as stated: in a mark run of cmd/pvc-cleanup, a fetched disk with an
\* empty last-attach timestamp yields the error "last attached timestamp is
\* empty", and no SetLabels is issued or about to be issued for it.
C36_EmptyTimestampIsAnError ==
    cmd.kind = "pvc-mark" /\ disk.id # 0 /\ disk.lastAttachTimestamp = "" =>
        /\ decided.err = errEmptyTimestamp
        /\ pc = "pvc_mark_next"
        /\ CallsFor("SetLabels", disk.id) = {}

\* C37 as stated: the cleanup command of cmd/cleanup, once started, returns.
C37_StubCleanupReturns ==
    (cmd.kind = "stub-cleanup" /\ ret = "running") ~> (ret = nil)

====
